---- MODULE Spec2Model ----
(***************************************************************************)
(* A model of the splay tree of src/tree.hpp (SplayTree<KeyValuePair>) and  *)
(* of the TreeMap adapter on top of it.                                     *)
(*                                                                          *)
(* The heap is a pool of nodes addressed by 1..MaxNodes; NULL (0) is the    *)
(* null pointer.  A tree value t is a record                                *)
(*     root, left, right, parent, data, live                                *)
(* holding the SplayTree::root member, the three link fields and the data   *)
(* field of every node of the pool, and the set of nodes that are currently *)
(* allocated.  Keys are std::string in the source; only their total order   *)
(* (operator<, operator>, operator==) is used, so keys are modelled by the  *)
(* integers 1..MaxKey under <.  Values are strings, the empty one included. *)
(***************************************************************************)
EXTENDS Integers, Sequences, FiniteSets, TLC

MaxKey == 4

NULL == 0
Keys == 1..MaxKey
Values == {"", "a"}
\* the pool has a slot more than there are keys
MaxNodes == MaxKey + 1
Nodes == 1..MaxNodes
Ptr == Nodes \cup {NULL}

\* KeyValuePair(k, v = "")
KeyValuePair(k, v) == [key |-> k, value |-> v]
\* the content of a pool slot that holds no node
NoData == [key |-> 0, value |-> ""]

\* KeyValuePair::operator< , operator> , operator== : by key only
Less(a, b) == a.key < b.key
Greater(a, b) == a.key > b.key
Equal(a, b) == a.key = b.key

\* SplayTree() = default: root = nullptr, no node allocated
EmptyTree ==
    [root   |-> NULL,
     left   |-> [n \in Nodes |-> NULL],
     right  |-> [n \in Nodes |-> NULL],
     parent |-> [n \in Nodes |-> NULL],
     data   |-> [n \in Nodes |-> NoData],
     live   |-> {}]

\* the address `new Node(d)` returns: a slot of the pool that is not allocated.
\* Which one is the allocator's choice, and the program neither orders nor
\* computes with addresses, so one choice is fixed: the slot numbered as the
\* key of d when that is free, the lowest free slot otherwise.
FreeNode(t, d) ==
    IF d.key \in Nodes \ t.live THEN d.key
    ELSE CHOOSE n \in Nodes \ t.live : \A m \in Nodes \ t.live : n <= m

\* new Node(d): data(d), left(nullptr), right(nullptr), parent(nullptr)
NewNode(t, n, d) ==
    [t EXCEPT !.live = @ \cup {n}, !.data[n] = d,
              !.left[n] = NULL, !.right[n] = NULL, !.parent[n] = NULL]

\* delete node: the slot returns to the pool; pointers to it held elsewhere
\* are left as they are
DeleteNode(t, n) ==
    [t EXCEPT !.live = @ \ {n}, !.data[n] = NoData,
              !.left[n] = NULL, !.right[n] = NULL, !.parent[n] = NULL]

(***************************************************************************)
(* Every operator below takes the tree as it is before a statement (or a    *)
(* group of statements) and gives the tree as it is after it.  The          *)
(* statements of a function body are composed in the order of the source.   *)
(***************************************************************************)

(***************************************************************************)
(* rotateLeft(x), with y = x->right not null                                *)
(***************************************************************************)
\* the rotation handing x the wrong subtree of y: x->right = y->right
rotateLeftInner_wrongSubtree(t, x, y) ==
    IF t.left[y] # NULL
    THEN [t EXCEPT !.right[x] = t.right[y], !.parent[t.left[y]] = x]
    ELSE [t EXCEPT !.right[x] = t.right[y]]

\* x->right = y->left; if (y->left) y->left->parent = x;
rotateLeftInner(t, x, y) ==
    IF t.left[y] # NULL
    THEN [t EXCEPT !.right[x] = t.left[y], !.parent[t.left[y]] = x]
    ELSE [t EXCEPT !.right[x] = t.left[y]]

\* y->parent = x->parent;
rotateLeftUp(t, x, y) == [t EXCEPT !.parent[y] = t.parent[x]]

\* if (!x->parent) root = y; else if (x == x->parent->left) ... else ...
rotateLeftRelink(t, x, y) ==
    IF t.parent[x] = NULL THEN [t EXCEPT !.root = y]
    ELSE IF x = t.left[t.parent[x]] THEN [t EXCEPT !.left[t.parent[x]] = y]
    ELSE [t EXCEPT !.right[t.parent[x]] = y]

\* y->left = x; x->parent = y;
rotateLeftDown(t, x, y) == [t EXCEPT !.left[y] = x, !.parent[x] = y]

rotateLeft(t, x) ==
    IF t.right[x] = NULL THEN t
    ELSE rotateLeftDown(
           rotateLeftRelink(
             rotateLeftUp(
               rotateLeftInner(t, x, t.right[x]),
               x, t.right[x]),
             x, t.right[x]),
           x, t.right[x])

(***************************************************************************)
(* rotateRight(x), with y = x->left not null                                *)
(***************************************************************************)
\* the rotation without `y->right->parent = x`
rotateRightInner_noParent(t, x, y) == [t EXCEPT !.left[x] = t.right[y]]

\* x->left = y->right; if (y->right) y->right->parent = x;
rotateRightInner(t, x, y) ==
    IF t.right[y] # NULL
    THEN [t EXCEPT !.left[x] = t.right[y], !.parent[t.right[y]] = x]
    ELSE [t EXCEPT !.left[x] = t.right[y]]

\* y->parent = x->parent;
rotateRightUp(t, x, y) == [t EXCEPT !.parent[y] = t.parent[x]]

\* if (!x->parent) root = y; else if (x == x->parent->left) ... else ...
rotateRightRelink(t, x, y) ==
    IF t.parent[x] = NULL THEN [t EXCEPT !.root = y]
    ELSE IF x = t.left[t.parent[x]] THEN [t EXCEPT !.left[t.parent[x]] = y]
    ELSE [t EXCEPT !.right[t.parent[x]] = y]

\* y->right = x; x->parent = y;
rotateRightDown(t, x, y) == [t EXCEPT !.right[y] = x, !.parent[x] = y]

rotateRight(t, x) ==
    IF t.left[x] = NULL THEN t
    ELSE rotateRightDown(
           rotateRightRelink(
             rotateRightUp(
               rotateRightInner(t, x, t.left[x]),
               x, t.left[x]),
             x, t.left[x]),
           x, t.left[x])

\* a rotation request <<direction, node>> carried out
rotate(t, r) == IF r[1] = "L" THEN rotateLeft(t, r[2]) ELSE rotateRight(t, r[2])

(***************************************************************************)
(* splay                                                                    *)
(***************************************************************************)
\* the zig-zig case rotating the parent first and the grandparent second
splayCase_parentFirst(t, x, p, g) ==
    IF g = NULL THEN
        IF x = t.left[p] THEN << <<"R", p>> >> ELSE << <<"L", p>> >>
    ELSE IF (x = t.left[p]) = (p = t.left[g]) THEN
        IF x = t.left[p] THEN << <<"R", p>>, <<"R", g>> >>
                         ELSE << <<"L", p>>, <<"L", g>> >>
    ELSE
        IF x = t.left[p] THEN << <<"R", p>>, <<"L", g>> >>
                         ELSE << <<"L", p>>, <<"R", g>> >>

\* the zig-zag case making its first rotation only
splayCase_halfZigZag(t, x, p, g) ==
    IF g = NULL THEN
        IF x = t.left[p] THEN << <<"R", p>> >> ELSE << <<"L", p>> >>
    ELSE IF (x = t.left[p]) = (p = t.left[g]) THEN
        IF x = t.left[p] THEN << <<"R", g>>, <<"R", p>> >>
                         ELSE << <<"L", g>>, <<"L", p>> >>
    ELSE
        IF x = t.left[p] THEN << <<"R", p>> >> ELSE << <<"L", p>> >>

\* the rotations one iteration of the while loop requests for x with parent
\* p and grandparent g, in order
splayCase(t, x, p, g) ==
    IF g = NULL THEN
        \* Zig
        IF x = t.left[p] THEN << <<"R", p>> >> ELSE << <<"L", p>> >>
    ELSE IF (x = t.left[p] /\ p = t.left[g]) \/ (x = t.right[p] /\ p = t.right[g]) THEN
        \* Zig-zig
        IF x = t.left[p] THEN << <<"R", g>>, <<"R", p>> >>
                         ELSE << <<"L", g>>, <<"L", p>> >>
    ELSE
        \* Zig-zag
        IF x = t.left[p] THEN << <<"R", p>>, <<"L", g>> >>
                         ELSE << <<"L", p>>, <<"R", g>> >>

\* Node* p = x->parent; Node* g = p->parent;
splayRotations(t, x) == splayCase(t, x, t.parent[x], t.parent[t.parent[x]])

\* the tree a after a first rotation, and the tree after the rotation r
\* that follows it
splayThen(a, r) == <<a, rotate(a, r)>>

\* the trees after each of the rotations rs, made from t in order
splayApply(t, rs) ==
    IF Len(rs) = 1 THEN <<rotate(t, rs[1])>> ELSE splayThen(rotate(t, rs[1]), rs[2])

\* the trees after each rotation of one iteration of the while loop
splayStep(t, x) == splayApply(t, splayRotations(t, x))

\* splay stopping below the root: while (x->parent && x->parent->parent)
RECURSIVE splayTrace_noZig(_, _)
splayLoop_noZig(s, x) == s \o splayTrace_noZig(s[Len(s)], x)

splayTrace_noZig(t, x) ==
    IF x = NULL THEN <<>>
    ELSE IF t.parent[x] = NULL THEN <<>>
    ELSE IF t.parent[t.parent[x]] = NULL THEN <<>>
    ELSE splayLoop_noZig(splayStep(t, x), x)

\* splay(x): the trees after each rotation it performs, in order; s holds
\* those of the iteration just made
RECURSIVE splayTrace(_, _)
splayLoop(s, x) == s \o splayTrace(s[Len(s)], x)

splayTrace(t, x) ==
    IF x = NULL THEN <<>>
    ELSE IF t.parent[x] = NULL THEN <<>>
    ELSE splayLoop(splayStep(t, x), x)

\* the tree at the end of the trace tr that began at t
splayEnd(t, tr) == IF tr = <<>> THEN t ELSE tr[Len(tr)]

\* the tree splay(x) leaves
splay(t, x) == splayEnd(t, splayTrace(t, x))

(***************************************************************************)
(* Helpers                                                                  *)
(***************************************************************************)
RECURSIVE subtreeMin(_, _)
subtreeMin(t, x) ==
    IF x = NULL THEN NULL
    ELSE IF t.left[x] # NULL THEN subtreeMin(t, t.left[x])
    ELSE x

\* if (!u->parent) root = v; else if (u == u->parent->left) ... else ...
replaceNodeLink(t, u, v) ==
    IF t.parent[u] = NULL THEN [t EXCEPT !.root = v]
    ELSE IF u = t.left[t.parent[u]] THEN [t EXCEPT !.left[t.parent[u]] = v]
    ELSE [t EXCEPT !.right[t.parent[u]] = v]

\* if (v) v->parent = u->parent;
replaceNodeParent(t, u, v) ==
    IF v # NULL THEN [t EXCEPT !.parent[v] = t.parent[u]] ELSE t

replaceNode(t, u, v) == replaceNodeParent(replaceNodeLink(t, u, v), u, v)

(***************************************************************************)
(* insert                                                                   *)
(***************************************************************************)
\* the descent going right on an equal element (>= for >)
RECURSIVE insertDescend_geq(_, _, _, _)
insertDescend_geq(t, value, cur, par) ==
    IF cur = NULL THEN [hit |-> NULL, parent |-> par]
    ELSE IF Less(value, t.data[cur]) THEN insertDescend_geq(t, value, t.left[cur], cur)
    ELSE insertDescend_geq(t, value, t.right[cur], cur)

\* the descent loop of insert: the node holding an element equal to value
\* (hit), or NULL with the last node visited (parent)
RECURSIVE insertDescend(_, _, _, _)
insertDescend(t, value, cur, par) ==
    IF cur = NULL THEN [hit |-> NULL, parent |-> par]
    ELSE IF Less(value, t.data[cur]) THEN insertDescend(t, value, t.left[cur], cur)
    ELSE IF Greater(value, t.data[cur]) THEN insertDescend(t, value, t.right[cur], cur)
    ELSE [hit |-> cur, parent |-> cur]

\* the new leaf linked on the other side of parent
insertLeaf_wrongSide(t, n, value, par) ==
    IF Less(value, t.data[par])
    THEN [t EXCEPT !.parent[n] = par, !.right[par] = n]
    ELSE [t EXCEPT !.parent[n] = par, !.left[par] = n]

\* newNode->parent = parent; then the new leaf n is linked below parent
insertLeaf(t, n, value, par) ==
    IF Less(value, t.data[par])
    THEN [t EXCEPT !.parent[n] = par, !.left[par] = n]
    ELSE [t EXCEPT !.parent[n] = par, !.right[par] = n]

\* after the descent d: the tree with the data replaced (equal key) or the
\* new leaf n linked in, and the node that is then splayed
insertAt(t, value, d, n) ==
    IF d.hit # NULL THEN
        \* Equal key: replace data, splay existing node
        [tree |-> [t EXCEPT !.data[d.hit] = value], node |-> d.hit]
    ELSE
        [tree |-> insertLeaf(NewNode(t, n, value), n, value, d.parent), node |-> n]

\* insert on a tree that is not empty, up to the call of splay
insertLink(t, value) ==
    insertAt(t, value, insertDescend(t, value, t.root, NULL), FreeNode(t, value))

\* root = new Node(value);
insertRoot(t, n, value) == [NewNode(t, n, value) EXCEPT !.root = n]

\* splay(cur) or splay(newNode)
insertSplay(l) == splay(l.tree, l.node)

insert(t, value) ==
    IF t.root = NULL THEN insertRoot(t, FreeNode(t, value), value)
    ELSE insertSplay(insertLink(t, value))

\* the trees after each rotation of that splay call
insertSplayTrace(l) == splayTrace(l.tree, l.node)

\* the trees after each rotation insert(value) performs
insertRotations(t, value) ==
    IF t.root = NULL THEN <<>> ELSE insertSplayTrace(insertLink(t, value))

(***************************************************************************)
(* findNode, contains                                                       *)
(***************************************************************************)
\* the descent with the two comparisons exchanged
RECURSIVE findDescend_swapped(_, _, _, _)
findDescend_swapped(t, value, cur, lst) ==
    IF cur = NULL THEN [hit |-> NULL, last |-> lst]
    ELSE IF Greater(value, t.data[cur]) THEN findDescend_swapped(t, value, t.left[cur], cur)
    ELSE IF Less(value, t.data[cur]) THEN findDescend_swapped(t, value, t.right[cur], cur)
    ELSE [hit |-> cur, last |-> cur]

\* the descent with `last = cur` made after cur has moved on
RECURSIVE findDescend_lateLast(_, _, _, _)
findDescend_lateLast(t, value, cur, lst) ==
    IF cur = NULL THEN [hit |-> NULL, last |-> NULL]
    ELSE IF Less(value, t.data[cur]) THEN findDescend_lateLast(t, value, t.left[cur], cur)
    ELSE IF Greater(value, t.data[cur]) THEN findDescend_lateLast(t, value, t.right[cur], cur)
    ELSE [hit |-> cur, last |-> cur]

\* the descent loop of findNode: the matching node (hit) or NULL, and the
\* last node visited
RECURSIVE findDescend(_, _, _, _)
findDescend(t, value, cur, lst) ==
    IF cur = NULL THEN [hit |-> NULL, last |-> lst]
    ELSE IF Less(value, t.data[cur]) THEN findDescend(t, value, t.left[cur], cur)
    ELSE IF Greater(value, t.data[cur]) THEN findDescend(t, value, t.right[cur], cur)
    ELSE [hit |-> cur, last |-> cur]

\* findNode returning the last node visited on a miss
findSplay_returnsLast(t, d) ==
    IF d.hit # NULL THEN [tree |-> splay(t, d.hit), node |-> d.hit]
    ELSE IF d.last # NULL THEN [tree |-> splay(t, d.last), node |-> d.last]
    ELSE [tree |-> t, node |-> NULL]

\* findNode without the splay of the last node visited on a miss
findSplay_noMissSplay(t, d) ==
    IF d.hit # NULL THEN [tree |-> splay(t, d.hit), node |-> d.hit]
    ELSE [tree |-> t, node |-> NULL]

\* after the descent d: the tree the splay call leaves and the pointer
\* returned
findSplay(t, d) ==
    IF d.hit # NULL THEN [tree |-> splay(t, d.hit), node |-> d.hit]
    ELSE IF d.last # NULL THEN [tree |-> splay(t, d.last), node |-> NULL]
    ELSE [tree |-> t, node |-> NULL]

findNode(t, value) == findSplay(t, findDescend(t, value, t.root, NULL))

\* the trees after each rotation of the splay call findNode makes
findSplayTrace(t, d) ==
    IF d.hit # NULL THEN splayTrace(t, d.hit) ELSE splayTrace(t, d.last)

\* the trees after each rotation findNode(value) performs
findRotations(t, value) == findSplayTrace(t, findDescend(t, value, t.root, NULL))

\* findNode(value) != nullptr
containsResult(f) == [tree |-> f.tree, result |-> f.node # NULL]

contains(t, value) == containsResult(findNode(t, value))

(***************************************************************************)
(* erase                                                                    *)
(***************************************************************************)
\* which branch of the if/else chain of erase removes node
eraseCase(t, node) ==
    IF t.left[node] = NULL THEN "noLeft"
    ELSE IF t.right[node] = NULL THEN "noRight"
    ELSE IF t.parent[subtreeMin(t, t.right[node])] # node THEN "succDeep"
    ELSE "succChild"

\* a step of the chain: the tree after a replaceNode call (at =
\* "replaceNode") or after the link assignments that follow one ("links")
EraseStep(at, t) == [at |-> at, tree |-> t]

\* minRight->right = node->right; minRight->right->parent = minRight;
eraseTakeRight(t, node, minRight) ==
    [t EXCEPT !.right[minRight] = t.right[node], !.parent[t.right[node]] = minRight]

\* the left subtree handed over without its parent pointer
eraseTakeLeft_noParent(t, node, minRight) ==
    [t EXCEPT !.left[minRight] = t.left[node]]

\* minRight->left = node->left; minRight->left->parent = minRight;
eraseTakeLeft(t, node, minRight) ==
    [t EXCEPT !.left[minRight] = t.left[node], !.parent[t.left[node]] = minRight]

\* the tree a after replaceNode(minRight, minRight->right), and then after
\* the two assignments that follow
eraseDetach(a, node, minRight) ==
    << EraseStep("replaceNode", a),
       EraseStep("links", eraseTakeRight(a, node, minRight)) >>

\* the tree b after replaceNode(node, minRight), and then after the two
\* assignments that follow
eraseInstall(b, node, minRight) ==
    << EraseStep("replaceNode", b),
       EraseStep("links", eraseTakeLeft(b, node, minRight)) >>

\* the steps es made so far, then those of replaceNode(node, minRight) and
\* what follows it
eraseThenInstall(es, node, minRight) ==
    es \o eraseInstall(replaceNode(es[Len(es)].tree, node, minRight), node, minRight)

\* the else branch detaching minRight without putting its right subtree in
\* its place
eraseSuccessor_dropsRight(t, node, minRight) ==
    IF t.parent[minRight] # node
    THEN eraseThenInstall(
             eraseDetach(replaceNode(t, minRight, NULL), node, minRight),
             node, minRight)
    ELSE eraseInstall(replaceNode(t, node, minRight), node, minRight)

\* the else branch: both children present, minRight = subtreeMin(node->right)
eraseSuccessor(t, node, minRight) ==
    IF t.parent[minRight] # node
    THEN eraseThenInstall(
             eraseDetach(replaceNode(t, minRight, t.right[minRight]), node, minRight),
             node, minRight)
    ELSE eraseInstall(replaceNode(t, node, minRight), node, minRight)

\* the second branch replacing node by node->right as the first does
eraseSteps_copyPaste(t, node) ==
    IF t.left[node] = NULL THEN
        << EraseStep("replaceNode", replaceNode(t, node, t.right[node])) >>
    ELSE IF t.right[node] = NULL THEN
        << EraseStep("replaceNode", replaceNode(t, node, t.right[node])) >>
    ELSE eraseSuccessor(t, node, subtreeMin(t, t.right[node]))

\* the if/else chain of erase: its steps, in order
eraseSteps(t, node) ==
    IF t.left[node] = NULL THEN
        << EraseStep("replaceNode", replaceNode(t, node, t.right[node])) >>
    ELSE IF t.right[node] = NULL THEN
        << EraseStep("replaceNode", replaceNode(t, node, t.left[node])) >>
    ELSE eraseSuccessor(t, node, subtreeMin(t, t.right[node]))

\* the tree at the end of the steps es
eraseEnd(es) == es[Len(es)].tree

\* the tree once node is out of it, before the node is deleted
eraseUnlink(t, node) == eraseEnd(eraseSteps(t, node))

\* after findNode returned f: if (!node) return; splay(node); the chain;
\* delete node;
eraseFound(f) ==
    IF f.node = NULL THEN f.tree
    ELSE DeleteNode(eraseUnlink(splay(f.tree, f.node), f.node), f.node)

erase(t, value) == eraseFound(findNode(t, value))

\* the trees after each rotation of the call splay(node) in erase
eraseSplayTrace(f) == splayTrace(f.tree, f.node)

\* the trees after each rotation erase(value) performs: those of findNode,
\* then those of the call splay(node)
eraseRotations(t, value) ==
    findRotations(t, value) \o eraseSplayTrace(findNode(t, value))

\* the steps of the chain when findNode returned f; none when it found nothing
eraseFoundSteps(f) ==
    IF f.node = NULL THEN <<>> ELSE eraseSteps(splay(f.tree, f.node), f.node)

\* the steps of the if/else chain erase(value) goes through
eraseReplaces(t, value) == eraseFoundSteps(findNode(t, value))

\* the branch erase(value) takes when findNode returned f
eraseFoundCase(f) ==
    IF f.node = NULL THEN "none" ELSE eraseCase(splay(f.tree, f.node), f.node)

\* in the else branch: whether minRight has a right child, which
\* replaceNode(minRight, minRight->right) then puts in its place
eraseSuccRight(t, node) ==
    /\ eraseCase(t, node) = "succDeep"
    /\ t.right[subtreeMin(t, t.right[node])] # NULL

\* the same, when findNode returned f
eraseFoundSuccRight(f) ==
    IF f.node = NULL THEN FALSE ELSE eraseSuccRight(splay(f.tree, f.node), f.node)

\* const T* rootData(): the root's element, NoData standing for nullptr
rootData(t) == IF t.root # NULL THEN t.data[t.root] ELSE NoData

(***************************************************************************)
(* TreeMap                                                                  *)
(***************************************************************************)
\* the pair built without the value
TreeMapInsert_noValue(t, key, value) == insert(t, KeyValuePair(key, ""))

TreeMapInsert(t, key, value) == insert(t, KeyValuePair(key, value))

\* if (node && node->data.key == key) return node->data.value; return "";
TreeMapGetResult(f, key) ==
    [tree   |-> f.tree,
     result |-> IF f.node # NULL /\ f.tree.data[f.node].key = key
                THEN f.tree.data[f.node].value ELSE ""]

TreeMapGet(t, key) == TreeMapGetResult(findNode(t, KeyValuePair(key, "")), key)

TreeMapDeleteKey(t, key) == erase(t, KeyValuePair(key, ""))

(***************************************************************************)
(* What is observed of a tree: the nodes reachable from the root, the       *)
(* elements they hold, the in-order sequence.                               *)
(***************************************************************************)
Children(t, S) == ({t.left[n] : n \in S} \cup {t.right[n] : n \in S}) \ {NULL}

\* the nodes reachable from those of S along left and right links; N is S
\* with the children of its nodes
RECURSIVE Closure(_, _)
ClosureGrow(t, S, N) == IF N = S THEN S ELSE Closure(t, N)
Closure(t, S) == ClosureGrow(t, S, S \cup Children(t, S))

\* the nodes of the subtree whose top is n
Subtree(t, n) == IF n = NULL THEN {} ELSE Closure(t, {n})
\* the nodes reachable from the root
Reach(t) == Subtree(t, t.root)
NodeCount(t) == Cardinality(Reach(t))
\* the stored elements and keys
Entries(t) == {t.data[n] : n \in Reach(t)}
HasKey(t, k) == \E n \in Reach(t) : t.data[n].key = k

\* the in-order sequence of the elements below n, at most d levels deep
RECURSIVE InOrderFrom(_, _, _)
InOrderFrom(t, n, d) ==
    IF n = NULL \/ d = 0 THEN <<>>
    ELSE InOrderFrom(t, t.left[n], d - 1) \o <<t.data[n]>>
         \o InOrderFrom(t, t.right[n], d - 1)
InOrder(t) == InOrderFrom(t, t.root, MaxNodes + 1)

(***************************************************************************)
(* The state machine: one TreeMap, called by one thread.                    *)
(*   tree  the SplayTree member of the map                                  *)
(*   amap  the abstract map the calls made so far define: key -> value      *)
(*   last  the call made last: its arguments, what it returned, and what    *)
(*         it did:                                                          *)
(*           node   the pointer findNode returned in it (NULL in insert)    *)
(*           count  the number of nodes in the tree before it               *)
(*           run    in a get or an insert, the values of the insert calls   *)
(*                  of the same key made just before it, without another    *)
(*                  call between (the last two, or the last one)            *)
(*           rots   the number of rotations it performed                    *)
(*           ecase  the branch of erase that removed the node               *)
(*           sright whether the successor erase moved up had a right child  *)
(*   busy  the call in progress, where calls are taken one loop iteration   *)
(*         at a time (SpecSteps):                                           *)
(*           pc    "idle": none; "splay": in the while loop of the splay    *)
(*                 call of insert or findNode; "eraseSplay": in that of the *)
(*                 splay(node) call of erase; "unlink": erase, at its       *)
(*                 if/else chain                                            *)
(*           op    the call; x the argument of splay; node what findNode    *)
(*                 returns                                                  *)
(*           rs    the rotations of the loop iteration made last            *)
(*           from  the depth of x before that iteration                     *)
(*   conc  the threads inside a lookup, where lookups are taken one pointer *)
(*         access at a time (SpecConc)                                      *)
(***************************************************************************)
VARIABLES tree, amap, last, busy, conc

vars == <<tree, amap, last, busy, conc>>

\* no call in progress; no thread
Idle == [pc |-> "idle", op |-> "none", x |-> NULL, node |-> NULL,
         rs |-> <<>>, from |-> 0]
NoThreads == [mode |-> "none"]

\* the values of the inserts of key k made just before a call op(k) that
\* follows the call c: the last two before a get, the last one before an
\* insert (none is kept for the other calls)
RunAfter(c, op, k) ==
    IF c.op = "insert" /\ c.key = k /\ op \in {"insert", "get"}
    THEN (IF c.run = <<>> \/ op = "insert" THEN <<>> ELSE <<c.run[Len(c.run)]>>)
         \o <<c.value>>
    ELSE <<>>

Call(op, k, v, res, node, rots, ecase) ==
    [op |-> op, key |-> k, value |-> v, result |-> res, node |-> node,
     count |-> NodeCount(tree), run |-> RunAfter(last, op, k),
     rots |-> rots, ecase |-> ecase, sright |-> FALSE]

Init ==
    /\ tree = EmptyTree
    /\ amap = <<>>
    /\ last = [op |-> "new", key |-> 0, value |-> "", result |-> "",
               node |-> NULL, count |-> 0, run |-> <<>>, rots |-> 0,
               ecase |-> "none", sright |-> FALSE]
    /\ busy = Idle
    /\ conc = NoThreads

\* the abstract map with k bound to v, with k unbound, and read at k
AbsPut(m, k, v) == [x \in DOMAIN m \cup {k} |-> IF x = k THEN v ELSE m[x]]
AbsRemove(m, k) == [x \in DOMAIN m \ {k} |-> m[x]]
AbsGet(m, k) == IF k \in DOMAIN m THEN m[k] ELSE ""

\* insert(value) finds an equal element or a free slot of the pool for the
\* node it allocates
CanInsert(t, value) ==
    \/ insertDescend(t, value, t.root, NULL).hit # NULL
    \/ t.live # Nodes

\* map.insert(k, v)
Insert(k, v) ==
    /\ CanInsert(tree, KeyValuePair(k, v))
    /\ tree' = TreeMapInsert(tree, k, v)
    /\ amap' = AbsPut(amap, k, v)
    /\ last' = Call("insert", k, v, "", NULL,
                    Len(insertRotations(tree, KeyValuePair(k, v))), "none")
    /\ UNCHANGED <<busy, conc>>

\* map.get(k)
Get(k) ==
    /\ tree' = TreeMapGet(tree, k).tree
    /\ amap' = amap
    /\ last' = Call("get", k, "", TreeMapGet(tree, k).result,
                    findNode(tree, KeyValuePair(k, "")).node,
                    Len(findRotations(tree, KeyValuePair(k, ""))), "none")
    /\ UNCHANGED <<busy, conc>>

\* map.deleteKey(k)
DeleteKey(k) ==
    /\ tree' = TreeMapDeleteKey(tree, k)
    /\ amap' = AbsRemove(amap, k)
    /\ last' = [Call("deleteKey", k, "", "",
                     findNode(tree, KeyValuePair(k, "")).node,
                     Len(eraseRotations(tree, KeyValuePair(k, ""))),
                     eraseFoundCase(findNode(tree, KeyValuePair(k, ""))))
                EXCEPT !.sright =
                     eraseFoundSuccRight(findNode(tree, KeyValuePair(k, "")))]
    /\ UNCHANGED <<busy, conc>>

\* tree.contains(KeyValuePair(k))
Contains(k) ==
    /\ tree' = contains(tree, KeyValuePair(k, "")).tree
    /\ amap' = amap
    /\ last' = Call("contains", k, "",
                    IF contains(tree, KeyValuePair(k, "")).result
                    THEN "true" ELSE "false",
                    findNode(tree, KeyValuePair(k, "")).node,
                    Len(findRotations(tree, KeyValuePair(k, ""))), "none")
    /\ UNCHANGED <<busy, conc>>

Next ==
    \/ \E k \in Keys, v \in Values : Insert(k, v)
    \/ \E k \in Keys : Get(k)
    \/ \E k \in Keys : DeleteKey(k)
    \/ \E k \in Keys : Contains(k)

Spec == Init /\ [][Next]_vars

(***************************************************************************)
(* The same map over one key more, as many keys as the pool has slots, and  *)
(* the empty value only: trees five nodes large and four levels deep.       *)
(* `new Node` may fail here.                                                *)
(***************************************************************************)
DeepKeys == 1..MaxNodes

\* an insert that splays the node the descent ended at before it allocates
insertUntilNew_splayFirst(t, value) ==
    IF t.root = NULL THEN t
    ELSE splay(t, insertDescend(t, value, t.root, NULL).parent)

\* insert(value) up to the `new Node(value)` that throws std::bad_alloc: the
\* tree the exception leaves.  In the empty tree `root = new Node(value)`
\* throws before root is assigned; otherwise the descent loop comes first,
\* which assigns only to the locals cur and parent, and `new` throws before
\* newNode->parent and the parent's child pointer are assigned.
insertUntilNew(t, value) == t

\* map.insert(k, v) with the allocation failing: the call reaches `new`
\* (no equal element is found) and the exception leaves it
InsertFails(k, v) ==
    /\ insertDescend(tree, KeyValuePair(k, v), tree.root, NULL).hit = NULL
    /\ tree' = insertUntilNew(tree, KeyValuePair(k, v))
    /\ amap' = amap
    /\ last' = Call("insertFails", k, v, "", NULL, 0, "none")
    /\ UNCHANGED <<busy, conc>>

NextDeep ==
    \/ \E k \in DeepKeys : Insert(k, "")
    \/ \E k \in DeepKeys : InsertFails(k, "")
    \/ \E k \in DeepKeys : Get(k)
    \/ \E k \in DeepKeys : DeleteKey(k)
    \/ \E k \in DeepKeys : Contains(k)

SpecDeep == Init /\ [][NextDeep]_vars

(***************************************************************************)
(* The calls taken one iteration of the splay loop at a time.               *)
(***************************************************************************)
\* the call op entering splay(x); node is what findNode is to return
StepSplay(op, x, node) ==
    [pc |-> "splay", op |-> op, x |-> x, node |-> node, rs |-> <<>>, from |-> 0]

\* the number of parent links from n up to the root
RECURSIVE DepthFrom(_, _, _)
DepthFrom(t, n, d) ==
    IF d = 0 \/ t.parent[n] = NULL THEN 0 ELSE 1 + DepthFrom(t, t.parent[n], d - 1)
Depth(t, n) == DepthFrom(t, n, MaxNodes + 1)

\* insert on a tree that is not empty, at its call of splay
StepInsertLinked(l) ==
    /\ tree' = l.tree
    /\ busy' = StepSplay("insert", l.node, NULL)

\* insert(value) up to its call of splay; in the empty tree, all of it
StepInsert(k) ==
    /\ busy.pc = "idle"
    /\ CanInsert(tree, KeyValuePair(k, ""))
    /\ IF tree.root = NULL
       THEN /\ tree' = insertRoot(tree, FreeNode(tree, KeyValuePair(k, "")),
                                  KeyValuePair(k, ""))
            /\ busy' = Idle
       ELSE StepInsertLinked(insertLink(tree, KeyValuePair(k, "")))
    /\ UNCHANGED <<amap, last, conc>>

\* findNode after its descent d: splay(cur) on a hit, splay(last) on a miss,
\* neither in the empty tree
StepFound(op, d) ==
    /\ tree' = tree
    /\ busy' = IF d.hit # NULL THEN StepSplay(op, d.hit, d.hit)
               ELSE IF d.last # NULL THEN StepSplay(op, d.last, NULL)
               ELSE Idle

\* findNode(value) up to its call of splay
StepFind(k) ==
    /\ busy.pc = "idle"
    /\ StepFound("find", findDescend(tree, KeyValuePair(k, ""), tree.root, NULL))
    /\ UNCHANGED <<amap, last, conc>>

\* erase(value) up to the call of splay in its findNode
StepErase(k) ==
    /\ busy.pc = "idle"
    /\ StepFound("erase", findDescend(tree, KeyValuePair(k, ""), tree.root, NULL))
    /\ UNCHANGED <<amap, last, conc>>

\* the loop stopping below the root: while (x->parent && x->parent->parent)
splayDone_noZig(t, x) ==
    IF t.parent[x] = NULL THEN TRUE ELSE t.parent[t.parent[x]] = NULL

\* the loop condition of splay failing: while (x->parent)
splayDone(t, x) == t.parent[x] = NULL

\* one iteration of the while loop of splay
SplayIteration ==
    /\ busy.pc \in {"splay", "eraseSplay"}
    /\ ~splayDone(tree, busy.x)
    /\ tree' = splayEnd(tree, splayStep(tree, busy.x))
    /\ busy' = [busy EXCEPT !.rs = splayRotations(tree, busy.x),
                            !.from = Depth(tree, busy.x)]
    /\ UNCHANGED <<amap, last, conc>>

\* splay returns: to insert or findNode, which return in turn; in erase,
\* findNode returns node and `if (!node) return;` or splay(node) follows;
\* from splay(node), to the if/else chain
SplayReturn ==
    /\ busy.pc \in {"splay", "eraseSplay"}
    /\ splayDone(tree, busy.x)
    /\ tree' = tree
    /\ busy' = IF busy.pc = "eraseSplay" THEN [busy EXCEPT !.pc = "unlink"]
               ELSE IF busy.op = "erase" /\ busy.node # NULL
                    THEN [busy EXCEPT !.pc = "eraseSplay", !.x = busy.node]
               ELSE Idle
    /\ UNCHANGED <<amap, last, conc>>

\* the if/else chain of erase and delete node
EraseUnlink ==
    /\ busy.pc = "unlink"
    /\ tree' = DeleteNode(eraseUnlink(tree, busy.node), busy.node)
    /\ busy' = Idle
    /\ UNCHANGED <<amap, last, conc>>

NextSteps ==
    \/ \E k \in DeepKeys : StepInsert(k)
    \/ \E k \in DeepKeys : StepFind(k)
    \/ \E k \in DeepKeys : StepErase(k)
    \/ SplayIteration
    \/ SplayReturn
    \/ EraseUnlink

SpecSteps == Init /\ [][NextSteps]_vars

\* the thread inside a call takes its next step
CallGoesOn == SplayIteration \/ SplayReturn \/ EraseUnlink

SpecStepsFair == SpecSteps /\ WF_vars(CallGoesOn)

(***************************************************************************)
(* Two threads looking up keys in the same tree, a lookup taken one         *)
(* statement at a time: each step is one statement of findNode, splay or    *)
(* rotateLeft/rotateRight, with the pointer reads and writes it makes, and  *)
(* the steps of the two threads interleave.  The tree is built first, by    *)
(* insert calls none of which overlaps another call.  conc holds            *)
(*   mode     "locked": the caller holds one exclusive lock around every    *)
(*            call, so a lookup begins only when no other is under way;     *)
(*            "free": the caller does not                                   *)
(*   started  whether a lookup has begun                                    *)
(*   th       for each thread, where it is in its lookup (pc) and its       *)
(*            locals: key, cur and lst (last) of findNode, x of splay, the  *)
(*            rotations rs the loop iteration under way has yet to make,    *)
(*            y of the rotation under way; n, the iterations of the splay   *)
(*            loop it has begun; and goal, the tree findNode leaves when    *)
(*            run alone on the tree the lookup began on (locked mode)       *)
(* In a tree whose links two threads have written the loop of splay need    *)
(* not end.  Without the lock a thread is followed for FreeLoops iterations *)
(* of it; with the lock for MaxLoops, as many as the tree can hold nodes,   *)
(* which the loop never needs (LoopsFollowed).                              *)
(***************************************************************************)
Threads == {1, 2}
ConcKeys == 1..(MaxKey - 2)
FreeLoops == 1
MaxLoops == Cardinality(ConcKeys)

\* the iterations of the splay loop a thread is followed for
LoopCap(mode) == IF mode = "free" THEN FreeLoops ELSE MaxLoops

ThreadIdle == [pc |-> "idle", key |-> 0, cur |-> NULL, lst |-> NULL, x |-> NULL,
               rs |-> <<>>, y |-> NULL, n |-> 0, goal |-> EmptyTree]

ConcStart(mode) ==
    [mode |-> mode, started |-> FALSE, th |-> [i \in Threads |-> ThreadIdle]]

InitConc ==
    /\ tree = EmptyTree
    /\ amap = [k \in {} |-> ""]
    /\ last = [op |-> "new", key |-> 0, value |-> "", result |-> "",
               node |-> NULL, count |-> 0, run |-> <<>>, rots |-> 0,
               ecase |-> "none", sright |-> FALSE]
    /\ busy = Idle
    /\ conc \in {ConcStart("locked"), ConcStart("free")}

\* thread i is inside a lookup
Inside(c, i) == c.th[i].pc \notin {"idle", "done"}

\* the caller's lock: in locked mode thread i enters only when no other
\* thread is inside
MayEnter(c, i) ==
    c.mode = "locked" => \A j \in Threads \ {i} : ~Inside(c, j)

\* conc with thread i at th
ConcWith(c, i, th) == [c EXCEPT !.th[i] = th, !.started = TRUE]

\* the thread out of findNode, its locals gone
ThreadDone(th) == [ThreadIdle EXCEPT !.pc = "done", !.goal = th.goal]

\* the thread entering splay(x); the locals of findNode are not read again
ThreadSplay(th, x) == [ThreadIdle EXCEPT !.pc = "splay", !.x = x, !.goal = th.goal]

\* map.insert(k, "") while the tree is built
ConcInsert(k) ==
    /\ ~conc.started
    /\ Insert(k, "")

\* findNode(value) entered: Node* cur = root; Node* last = nullptr;
ConcBegin(i, k) ==
    /\ conc.th[i].pc = "idle"
    /\ MayEnter(conc, i)
    /\ conc' = ConcWith(conc, i,
                  [ThreadIdle EXCEPT
                      !.pc = "descend", !.key = k, !.cur = tree.root,
                      !.goal = IF conc.mode = "locked"
                               THEN findNode(tree, KeyValuePair(k, "")).tree
                               ELSE EmptyTree])
    /\ UNCHANGED <<tree, amap, last, busy>>

\* while (cur) { last = cur; if ... cur = cur->left; else if ... cur =
\* cur->right; else { splay(cur); ... } } if (last) splay(last); return
\* nullptr;  One evaluation of the loop condition and the body after it.
concDescend(t, th) ==
    IF th.cur = NULL THEN
        IF th.lst # NULL THEN ThreadSplay(th, th.lst)
        ELSE ThreadDone(th)
    ELSE IF Less(KeyValuePair(th.key, ""), t.data[th.cur]) THEN
        [th EXCEPT !.lst = th.cur, !.cur = t.left[th.cur]]
    ELSE IF Greater(KeyValuePair(th.key, ""), t.data[th.cur]) THEN
        [th EXCEPT !.lst = th.cur, !.cur = t.right[th.cur]]
    ELSE ThreadSplay(th, th.cur)

ConcDescend(i) ==
    /\ conc.th[i].pc = "descend"
    /\ conc' = ConcWith(conc, i, concDescend(tree, conc.th[i]))
    /\ UNCHANGED <<tree, amap, last, busy>>

\* while (x->parent) { p = x->parent; g = p->parent; if (!g) ... }: the loop
\* condition and, when it holds, the choice of the rotations to make
concLoop(t, th) ==
    IF t.parent[th.x] = NULL THEN ThreadDone(th)
    ELSE [th EXCEPT !.pc = "rotate", !.rs = splayRotations(t, th.x), !.n = th.n + 1]

ConcLoop(i) ==
    /\ conc.th[i].pc = "splay"
    /\ tree.parent[conc.th[i].x] # NULL => conc.th[i].n < LoopCap(conc.mode)
    /\ conc' = ConcWith(conc, i, concLoop(tree, conc.th[i]))
    /\ UNCHANGED <<tree, amap, last, busy>>

\* where the thread goes on after the rotation rs[1]: to the next rotation
\* of the iteration, or to the loop condition
concAfterRotation(th) ==
    [th EXCEPT !.rs = Tail(th.rs), !.y = NULL,
               !.pc = IF Len(th.rs) > 1 THEN "rotate" ELSE "splay"]

\* Node* y = x->right; if (!y) return;  (x->left in rotateRight)
concRotateEnter(t, th, y) ==
    IF y = NULL THEN concAfterRotation(th)
    ELSE [th EXCEPT !.pc = "inner", !.y = y]

ConcRotateEnter(i) ==
    /\ conc.th[i].pc = "rotate"
    /\ conc' = ConcWith(conc, i,
                  concRotateEnter(tree, conc.th[i],
                      IF conc.th[i].rs[1][1] = "L" THEN tree.right[conc.th[i].rs[1][2]]
                      ELSE tree.left[conc.th[i].rs[1][2]]))
    /\ UNCHANGED <<tree, amap, last, busy>>

\* the statements of rotateLeft(x) after the early return, in four groups,
\* and those of rotateRight(x)
concRotateLeftPart(t, part, x, y) ==
    IF part = "inner" THEN rotateLeftInner(t, x, y)
    ELSE IF part = "up" THEN rotateLeftUp(t, x, y)
    ELSE IF part = "relink" THEN rotateLeftRelink(t, x, y)
    ELSE rotateLeftDown(t, x, y)

concRotateRightPart(t, part, x, y) ==
    IF part = "inner" THEN rotateRightInner(t, x, y)
    ELSE IF part = "up" THEN rotateRightUp(t, x, y)
    ELSE IF part = "relink" THEN rotateRightRelink(t, x, y)
    ELSE rotateRightDown(t, x, y)

\* the rotation without its `y->parent = x->parent;`
concRotateNext_skipsUp(th) ==
    IF th.pc = "inner" THEN [th EXCEPT !.pc = "relink"]
    ELSE IF th.pc = "up" THEN [th EXCEPT !.pc = "relink"]
    ELSE IF th.pc = "relink" THEN [th EXCEPT !.pc = "down"]
    ELSE concAfterRotation(th)

\* the thread after the group of statements it is at
concRotateNext(th) ==
    IF th.pc = "inner" THEN [th EXCEPT !.pc = "up"]
    ELSE IF th.pc = "up" THEN [th EXCEPT !.pc = "relink"]
    ELSE IF th.pc = "relink" THEN [th EXCEPT !.pc = "down"]
    ELSE concAfterRotation(th)

ConcRotateStep(i) ==
    /\ conc.th[i].pc \in {"inner", "up", "relink", "down"}
    /\ tree' = IF conc.th[i].rs[1][1] = "L"
               THEN concRotateLeftPart(tree, conc.th[i].pc, conc.th[i].rs[1][2], conc.th[i].y)
               ELSE concRotateRightPart(tree, conc.th[i].pc, conc.th[i].rs[1][2], conc.th[i].y)
    /\ conc' = ConcWith(conc, i, concRotateNext(conc.th[i]))
    /\ UNCHANGED <<amap, last, busy>>

NextConc ==
    \/ \E k \in ConcKeys : ConcInsert(k)
    \/ \E i \in Threads, k \in ConcKeys : ConcBegin(i, k)
    \/ \E i \in Threads : ConcDescend(i)
    \/ \E i \in Threads : ConcLoop(i)
    \/ \E i \in Threads : ConcRotateEnter(i)
    \/ \E i \in Threads : ConcRotateStep(i)

SpecConc == InitConc /\ [][NextConc]_vars

(***************************************************************************)
(* Properties                                                               *)
(***************************************************************************)
\* strict binary search tree: below every reachable node, smaller elements to
\* the left and greater ones to the right
IsBST(t) ==
    \A n \in Reach(t) :
        /\ \A m \in Subtree(t, t.left[n]) : Less(t.data[m], t.data[n])
        /\ \A m \in Subtree(t, t.right[n]) : Greater(t.data[m], t.data[n])

\* no two reachable nodes hold equal keys
NoDupKeys(t) ==
    \A n, m \in Reach(t) : n # m => ~Equal(t.data[n], t.data[m])

\* the child links into n held by the nodes of R
LinksInto(t, R, n) ==
    {ps \in R \X {"left", "right"} :
        (IF ps[2] = "left" THEN t.left[ps[1]] ELSE t.right[ps[1]]) = n}

\* the nodes R reachable from the root form a tree with consistent links: the
\* root has no parent, a child's parent link points back, every other node
\* is a child of its parent, and exactly one link leads to it
LinkOKIn(t, R) ==
    /\ t.root # NULL => t.parent[t.root] = NULL
    /\ \A p \in R :
          /\ t.left[p] # NULL => t.parent[t.left[p]] = p
          /\ t.right[p] # NULL => t.parent[t.right[p]] = p
    /\ \A n \in R \ {t.root} :
          /\ t.parent[n] \in R
          /\ t.left[t.parent[n]] = n \/ t.right[t.parent[n]] = n
    /\ \A n \in R :
          Cardinality(LinksInto(t, R, n)) = IF n = t.root THEN 0 ELSE 1

LinkOK(t) == LinkOKIn(t, Reach(t))

\* the node at which a search for key k from the root ends: the node holding
\* k, or the last node on the search path (NULL in the empty tree)
RECURSIVE PathEndFrom(_, _, _, _)
PathEndFrom(t, k, cur, prev) ==
    IF cur = NULL THEN prev
    ELSE IF k < t.data[cur].key THEN PathEndFrom(t, k, t.left[cur], cur)
    ELSE IF k > t.data[cur].key THEN PathEndFrom(t, k, t.right[cur], cur)
    ELSE cur
PathEnd(t, k) == PathEndFrom(t, k, t.root, NULL)

\* r is the greatest stored key below k or the least stored key above k
IsNeighbour(t, r, k) ==
    /\ HasKey(t, r)
    /\ \/ r < k /\ \A n \in Reach(t) : ~(r < t.data[n].key /\ t.data[n].key < k)
       \/ r > k /\ \A n \in Reach(t) : ~(k < t.data[n].key /\ t.data[n].key < r)

\* what get returns for every key
GetAll(t) == [k \in Keys |-> TreeMapGet(t, k).result]

\* C1: after any sequence of insert, get/contains and deleteKey calls from the
\* empty tree, the tree is a strict binary search tree.
C1_BSTInvariant == IsBST(tree)

\* an erase that moved the in-order successor up from deep in the right
\* subtree has left a root with two children
C1_Witness ==
    /\ last.op = "deleteKey" /\ last.ecase = "succDeep"
    /\ tree.left[tree.root] # NULL /\ tree.right[tree.root] # NULL

\* C2: the map refines the abstract key -> value map: get(k) returns the value
\* last inserted for k and not deleted since, "" when there is none, and the
\* tree holds exactly one node per key of the abstract map.
C2_RefinesMap ==
    /\ \A k \in Keys : TreeMapGet(tree, k).result = AbsGet(amap, k)
    /\ {e.key : e \in Entries(tree)} = DOMAIN amap
    /\ NodeCount(tree) = Cardinality(DOMAIN amap)

\* a key has just been deleted from a map of at least three, and the keys
\* left hold different values
C2_Witness ==
    /\ last.op = "deleteKey" /\ last.node # NULL /\ last.count >= 3
    /\ \E k1, k2 \in DOMAIN amap : amap[k1] = "a" /\ amap[k2] = ""

\* C3: insert(k, v) followed immediately by get(k) returns v.
C3_RoundTrip ==
    (last.op = "get" /\ last.run # <<>>) => last.result = last.run[Len(last.run)]

\* get(k) has just returned "a", right after insert(k, "a") into a map of at
\* least three other keys
C3_Witness ==
    /\ last.op = "get" /\ last.run = <<"a">> /\ last.result = "a"
    /\ last.count >= 3

\* C4: insert(k, v1), insert(k, v2), get(k) returns v2; the second insert
\* leaves the number of nodes unchanged; no two nodes hold equal keys.
C4_UpdateOverwrite ==
    /\ (last.op = "get" /\ Len(last.run) = 2) => last.result = last.run[2]
    /\ (last.op = "insert" /\ last.run # <<>>) => NodeCount(tree) = last.count
    /\ NoDupKeys(tree)

\* get(k) right after insert(k, "a") and insert(k, "")
C4_Witness ==
    /\ last.op = "get" /\ last.run = <<"a", "">> /\ last.count >= 2

\* C5: deleteKey(k) with k present: afterwards get(k) returns "", k is in no
\* node, one node less is in the tree, and get(k2) returns for every other
\* key k2 what it returned before.
C5_DeleteRemovesOne ==
    [][(last'.op = "deleteKey" /\ HasKey(tree, last'.key)) =>
          /\ TreeMapGet(tree', last'.key).result = ""
          /\ ~HasKey(tree', last'.key)
          /\ NodeCount(tree') = NodeCount(tree) - 1
          /\ \A k2 \in Keys \ {last'.key} :
                TreeMapGet(tree', k2).result = TreeMapGet(tree, k2).result]_vars

\* a present key has just been deleted whose node had both children, and a
\* key holding "a" is left
C5_Witness ==
    /\ last.op = "deleteKey" /\ last.node # NULL
    /\ last.ecase \in {"succChild", "succDeep"}
    /\ \E k \in DOMAIN amap : amap[k] = "a"

\* C6: deleteKey(k) with k absent leaves the set of stored (key, value)
\* entries, the result of get for every key and the number of nodes as they
\* were.
C6_DeleteAbsentNoop ==
    [][(last'.op = "deleteKey" /\ ~HasKey(tree, last'.key)) =>
          /\ Entries(tree') = Entries(tree)
          /\ GetAll(tree') = GetAll(tree)
          /\ NodeCount(tree') = NodeCount(tree)]_vars

\* an absent key has just been deleted from a map of at least three keys,
\* and the search rotated the tree
C6_Witness ==
    /\ last.op = "deleteKey" /\ ~HasKey(tree, last.key) /\ last.node = NULL
    /\ last.count >= 3 /\ last.rots >= 2

\* C7: after findNode(k) returns a match the matching node is the root; after
\* insert(value) the node holding value is the root, it has no parent, and
\* rootData() is that element.
C7_SplayToRoot ==
    /\ (last.op \in {"get", "contains"} /\ last.node # NULL) =>
          /\ tree.root = last.node
          /\ tree.parent[last.node] = NULL
          /\ tree.data[last.node].key = last.key
    /\ last.op = "insert" =>
          /\ tree.root # NULL
          /\ tree.parent[tree.root] = NULL
          /\ tree.data[tree.root] = KeyValuePair(last.key, last.value)
          /\ rootData(tree) = KeyValuePair(last.key, last.value)

\* a get has found its key three rotations below the root
C7_Witness ==
    last.op = "get" /\ last.node # NULL /\ last.rots = 3

\* every tree of the trace tr has consistent links
StepsOK(tr) == \A i \in DOMAIN tr : LinkOK(tr[i])
\* every tree left by a replaceNode call among the steps es has them
ReplacesOK(es) ==
    \A i \in DOMAIN es : es[i].at = "replaceNode" => LinkOK(es[i].tree)

\* C8: the link invariant holds after every public operation, and in every
\* call that can be made next it holds after each rotation and after each
\* replaceNode call.
C8_LinkInvariant ==
    /\ LinkOK(tree)
    /\ \A k \in Keys :
          /\ StepsOK(findRotations(tree, KeyValuePair(k, "")))
          /\ StepsOK(eraseRotations(tree, KeyValuePair(k, "")))
          /\ ReplacesOK(eraseReplaces(tree, KeyValuePair(k, "")))
    /\ \A k \in Keys, v \in Values :
          CanInsert(tree, KeyValuePair(k, v)) =>
              StepsOK(insertRotations(tree, KeyValuePair(k, v)))

\* an erase has rotated its node to the root and replaced it by a successor
\* taken from deep in the right subtree (two replaceNode calls)
C8_Witness ==
    last.op = "deleteKey" /\ last.ecase = "succDeep" /\ last.rots >= 2

\* C9: findNode(value) with no equal element stored returns not-found; in the
\* empty tree it changes nothing, otherwise it leaves at the root the last
\* node of the search path, which holds the in-order predecessor or
\* successor of value.
C9_FindMiss ==
    [][(last'.op \in {"get", "contains"} /\ ~HasKey(tree, last'.key)) =>
          /\ last'.node = NULL
          /\ last'.result = IF last'.op = "get" THEN "" ELSE "false"
          /\ tree.root = NULL => tree' = tree
          /\ tree.root # NULL =>
                /\ tree'.root = PathEnd(tree, last'.key)
                /\ tree'.parent[tree'.root] = NULL
                /\ IsNeighbour(tree, tree'.data[tree'.root].key, last'.key)]_vars

\* a get of an absent key has brought a neighbour up by two rotations or more
C9_Witness ==
    /\ last.op = "get" /\ ~HasKey(tree, last.key) /\ last.node = NULL
    /\ last.rots >= 2

\* C10 as stated: erase(value) with no equal element stored leaves the tree
\* (elements, shape, root) as it was.
C10_EraseMissIdentity ==
    [][(last'.op = "deleteKey" /\ ~HasKey(tree, last'.key)) => tree' = tree]_vars

\* C10 amended: erase(value) with no equal element stored leaves the in-order
\* sequence of elements and the set of allocated nodes as they were; the
\* last node of the search path is the root afterwards, and the tree is as
\* it was when that node was the root already (or the tree is empty).
C10_EraseMissKeepsElements ==
    [][(last'.op = "deleteKey" /\ ~HasKey(tree, last'.key)) =>
          /\ InOrder(tree') = InOrder(tree)
          /\ tree'.live = tree.live
          /\ tree'.root = PathEnd(tree, last'.key)
          /\ PathEnd(tree, last'.key) = tree.root => tree' = tree]_vars

\* an erase of an absent key has rotated the tree
C10_Witness ==
    /\ last.op = "deleteKey" /\ ~HasKey(tree, last.key) /\ last.node = NULL
    /\ last.rots >= 1 /\ last.count >= 2

(***************************************************************************)
(* The shape of a subtree: <<>> for none, else <<left shape, element,       *)
(* right shape>>.                                                           *)
(***************************************************************************)
RECURSIVE ShapeFrom(_, _, _)
ShapeFrom(t, n, d) ==
    IF n = NULL \/ d = 0 THEN <<>>
    ELSE << ShapeFrom(t, t.left[n], d - 1), t.data[n], ShapeFrom(t, t.right[n], d - 1) >>

Shape(t, n) == ShapeFrom(t, n, MaxNodes)

\* the shape sh with its leftmost node removed and that node's right subtree
\* in its place
RECURSIVE RemoveMin(_)
RemoveMin(sh) ==
    IF sh[1] = <<>> THEN sh[3] ELSE << RemoveMin(sh[1]), sh[2], sh[3] >>

\* the smallest key of t greater than k
SuccessorKey(t, k) ==
    CHOOSE m \in {t.data[n].key : n \in Reach(t)} :
        /\ m > k
        /\ \A n \in Reach(t) : t.data[n].key > k => m <= t.data[n].key

\* s is the tree with the element of key k splayed to the root, t2 the tree
\* erase leaves
EraseShapeOK(s, t2, k) ==
    /\ s.root # NULL /\ s.data[s.root].key = k
    /\ s.left[s.root] = NULL =>
          /\ t2.root = s.right[s.root]
          /\ Shape(t2, t2.root) = Shape(s, s.right[s.root])
    /\ (s.left[s.root] # NULL /\ s.right[s.root] = NULL) =>
          /\ t2.root = s.left[s.root]
          /\ Shape(t2, t2.root) = Shape(s, s.left[s.root])
    /\ (s.left[s.root] # NULL /\ s.right[s.root] # NULL) =>
          /\ t2.root # NULL
          /\ t2.data[t2.root].key = SuccessorKey(s, k)
          /\ Shape(t2, t2.left[t2.root]) = Shape(s, s.left[s.root])
          /\ Shape(t2, t2.right[t2.root]) = RemoveMin(Shape(s, s.right[s.root]))

\* C11: erase of a present element, once findNode has splayed it to the
\* root: without a left child the right child (or nothing) becomes the root;
\* with a left child only, that child becomes the root; with both, the new
\* root is the element next in order, its left subtree is the erased node's
\* left subtree and its right subtree is the erased node's right subtree
\* with the successor taken out and the successor's right subtree in its
\* place.
C11_EraseShape ==
    [][(last'.op = "deleteKey" /\ HasKey(tree, last'.key)) =>
          EraseShapeOK(findNode(tree, KeyValuePair(last'.key, "")).tree,
                       tree', last'.key)]_vars

\* a key was erased whose node had both children, the successor deep in the
\* right subtree and with a right subtree of its own
C11_Witness ==
    /\ last.op = "deleteKey" /\ last.node # NULL
    /\ last.ecase = "succDeep" /\ last.sright
    /\ ~HasKey(tree, last.key)
    /\ tree.left[tree.root] # NULL
    /\ tree.left[tree.right[tree.root]] # NULL

\* the nodes reachable from those of S along left, right and parent links
AnyLinks(t, S) ==
    ({t.left[n] : n \in S} \cup {t.right[n] : n \in S} \cup {t.parent[n] : n \in S})
        \ {NULL}
RECURSIVE AnyClosure(_, _)
AnyClosureGrow(t, S, N) == IF N = S THEN S ELSE AnyClosure(t, N)
AnyClosure(t, S) == AnyClosureGrow(t, S, S \cup AnyLinks(t, S))
AnyReach(t) == IF t.root = NULL THEN {} ELSE AnyClosure(t, {t.root})

\* the reachable node of t that holds key k
NodeOfKey(t, k) == CHOOSE n \in Reach(t) : t.data[n].key = k

\* from t to t2 exactly node n was freed and taken out of the tree
FreesOnly(t, t2, n) ==
    /\ t2.live = t.live \ {n}
    /\ n \in t.live
    /\ n \notin AnyReach(t2)
    /\ Reach(t2) = Reach(t) \ {n}
    /\ NodeCount(t2) = NodeCount(t) - 1
    /\ NodeCount(t) = 1 => (t2.root = NULL /\ Reach(t2) = {})

\* C12: erase of a present element frees exactly one node, the one that held
\* the erased element; after the call no left, right or parent link leads
\* from the root to it, every other node reachable before is reachable
\* still, and the tree has one node less (none and no root after the last
\* element is erased).
C12_EraseFreesOne ==
    [][(last'.op = "deleteKey" /\ HasKey(tree, last'.key)) =>
          FreesOnly(tree, tree', NodeOfKey(tree, last'.key))]_vars

\* a node with both children was erased from a tree of four nodes or more
C12_Witness ==
    /\ last.op = "deleteKey" /\ last.node # NULL
    /\ last.node \notin tree.live
    /\ last.ecase \in {"succChild", "succDeep"}
    /\ last.count >= 4 /\ NodeCount(tree) = last.count - 1

(***************************************************************************)
(* Steps of the splay loop (SpecSteps)                                      *)
(***************************************************************************)
\* a step of SpecSteps that is one iteration of the while loop of splay
IsIteration == busy.pc # "idle" /\ busy'.pc = busy.pc /\ busy' # busy

\* which child of its parent c is, and the rotation of the parent that
\* lifts such a child
Side(t, c) == IF c = t.left[t.parent[c]] THEN "left" ELSE "right"
Lift(side) == IF side = "left" THEN "R" ELSE "L"

\* in t2, x is where g was in t
InPlaceOf(t, t2, g, x) ==
    /\ t2.parent[x] = t.parent[g]
    /\ IF t.parent[g] = NULL THEN t2.root = x
       ELSE IF g = t.left[t.parent[g]] THEN t2.left[t.parent[g]] = x
       ELSE t2.right[t.parent[g]] = x

\* c is a child of n, and knows it
ChildOf(t, c, n) == t.parent[c] = n /\ c \in {t.left[n], t.right[n]}

\* the tree after the rotations rs, made in order
RECURSIVE RotateAll(_, _)
RotateAll(t, rs) == IF rs = <<>> THEN t ELSE RotateAll(rotate(t, rs[1]), Tail(rs))

\* an iteration for x with parent p and grandparent g, from t to t2 by the
\* rotations rs
ZigOK(t, t2, rs, x, p) ==
    /\ rs = << <<Lift(Side(t, x)), p>> >>
    /\ t2.root = x /\ t2.parent[x] = NULL

ZigZigOK(t, t2, rs, x, p, g) ==
    /\ rs = << <<Lift(Side(t, x)), g>>, <<Lift(Side(t, x)), p>> >>
    /\ InPlaceOf(t, t2, g, x)
    /\ ChildOf(t2, p, x)
    /\ ChildOf(t2, g, p)

ZigZagOK(t, t2, rs, x, p, g) ==
    /\ rs = << <<Lift(Side(t, x)), p>>, <<Lift(Side(t, p)), g>> >>
    /\ rs[1][1] # rs[2][1]
    /\ InPlaceOf(t, t2, g, x)
    /\ ChildOf(t2, p, x) /\ ChildOf(t2, g, x)
    /\ {t2.left[x], t2.right[x]} = {p, g}

StepShapeOK(t, t2, rs, x, p, g) ==
    /\ t2 = RotateAll(t, rs)
    /\ IF g = NULL THEN ZigOK(t, t2, rs, x, p)
       ELSE IF Side(t, x) = Side(t, p) THEN ZigZigOK(t, t2, rs, x, p, g)
       ELSE ZigZagOK(t, t2, rs, x, p, g)

\* C13: an iteration of the splay loop for x with parent p: with a
\* grandparent g and x and p children of the same side (zig-zig), g is
\* rotated first and p second, in the same direction, and x ends where g
\* was with p its child and g the child of p; with x and p of opposite
\* sides (zig-zag), p is rotated first and g second, in opposite directions,
\* and x ends where g was with p and g its two children; without a
\* grandparent (zig), the one rotation of p makes x the root.
C13_StepShapes ==
    [][IsIteration =>
          StepShapeOK(tree, tree', busy'.rs, busy.x, tree.parent[busy.x],
                      tree.parent[tree.parent[busy.x]])]_vars

\* a zig-zig step lifted x from depth four to depth two, where a zig-zag
\* step is next
C13_Witness ==
    /\ busy.pc = "splay" /\ busy.from = 4
    /\ Len(busy.rs) = 2 /\ busy.rs[1][1] = busy.rs[2][1]
    /\ Depth(tree, busy.x) = 2
    /\ Side(tree, busy.x) # Side(tree, tree.parent[busy.x])

\* the child a rotation request lifts: rotateLeft returns early without a
\* right child, rotateRight without a left one
Pivot(t, r) == IF r[1] = "L" THEN t.right[r[2]] ELSE t.left[r[2]]

PivotsOK(t, rs) ==
    /\ Pivot(t, rs[1]) # NULL
    /\ Len(rs) = 2 => Pivot(rotate(t, rs[1]), rs[2]) # NULL

\* C15: every call ends.  In the splay loop every rotation requested has
\* its pivot child, each iteration lowers the depth of x by one (zig) or by
\* two (zig-zig, zig-zag), and the loop is left with x at the root.
C15_Termination ==
    /\ [][/\ IsIteration =>
               /\ PivotsOK(tree, busy'.rs)
               /\ Depth(tree', busy.x) = Depth(tree, busy.x) - Len(busy'.rs)
               /\ Len(busy'.rs) =
                     (IF tree.parent[tree.parent[busy.x]] = NULL THEN 1 ELSE 2)
          /\ (busy.pc = "splay" /\ busy'.pc # "splay") =>
               (tree'.root = busy.x /\ tree'.parent[busy.x] = NULL)]_vars
    /\ []<>(busy.pc = "idle")

\* a zig-zag step lifted x from depth four to depth two
C15_Witness ==
    /\ busy.pc = "splay" /\ busy.from = 4
    /\ Len(busy.rs) = 2 /\ busy.rs[1][1] # busy.rs[2][1]
    /\ Depth(tree, busy.x) = 2

\* C16: in erase, when findNode has returned a node and splay(node) is
\* called, the node is the root and has no parent: the call makes no
\* rotation, and the if/else chain works on the root.
C16_EraseSplayIdle ==
    /\ busy.pc = "eraseSplay" =>
          /\ busy.x = busy.node
          /\ tree.root = busy.node /\ tree.parent[busy.node] = NULL
          /\ splayTrace(tree, busy.node) = <<>>
    /\ busy.pc = "unlink" =>
          /\ tree.root = busy.node /\ tree.parent[busy.node] = NULL

\* erase is at its splay(node) call, in a tree of five nodes where the
\* splay call of findNode ended with a zig step
C16_Witness ==
    /\ busy.pc = "eraseSplay" /\ busy.op = "erase"
    /\ busy.x = busy.node /\ busy.node # NULL
    /\ Len(busy.rs) = 1 /\ busy.from = 1
    /\ NodeCount(tree) = MaxNodes

\* every tree of the trace tr holds the elements of t in the order of t
TraceKeeps(t, tr) == \A i \in 1..Len(tr) : InOrder(tr[i]) = InOrder(t)

\* t2 holds as many nodes as t, the same ones, and the same elements in the
\* same order
SameContent(t, t2) ==
    /\ InOrder(t2) = InOrder(t)
    /\ NodeCount(t2) = NodeCount(t)
    /\ t2.live = t.live

\* the splay calls that can be made on t with an element of key k: in
\* findNode (and so in contains, get and erase), in insert after the
\* element is linked or replaced, and splay(node) in erase
SplaysKeep(t, k) ==
    /\ SameContent(t, findNode(t, KeyValuePair(k, "")).tree)
    /\ SameContent(t, contains(t, KeyValuePair(k, "")).tree)
    /\ SameContent(t, TreeMapGet(t, k).tree)
    /\ TraceKeeps(t, findRotations(t, KeyValuePair(k, "")))
    /\ TraceKeeps(t, eraseRotations(t, KeyValuePair(k, "")))
    /\ (t.root # NULL /\ CanInsert(t, KeyValuePair(k, ""))) =>
          /\ TraceKeeps(insertLink(t, KeyValuePair(k, "")).tree,
                        insertRotations(t, KeyValuePair(k, "")))
          /\ InOrder(insert(t, KeyValuePair(k, ""))) =
                InOrder(insertLink(t, KeyValuePair(k, "")).tree)

\* C14: whatever the key, hit or miss, a lookup made on the tree (findNode,
\* contains, get) may move nodes but leaves the number of nodes and the
\* in-order sequence of the elements as they are; and every rotation of
\* every splay call that can be made leaves the in-order sequence as it is.
C14_ReadsKeepContent == \A k \in DeepKeys : SplaysKeep(tree, k)

\* a lookup that missed made three rotations in a tree of four nodes
C14_Witness ==
    /\ last.op \in {"get", "contains"}
    /\ ~HasKey(tree, last.key)
    /\ last.rots = 3
    /\ NodeCount(tree) = 4 /\ last.count = 4

\* C17: when the allocation of the new node fails in an insert of a key the
\* tree does not hold, the tree is left as it was before the call: the same
\* nodes, links, elements and root.
C17_AllocFailureAtomic ==
    [][last'.op = "insertFails" =>
          /\ ~HasKey(tree, last'.key)
          /\ tree' = tree
          /\ amap' = amap]_vars

\* the allocation failed in an insert into a tree of three nodes or more,
\* below a node that is not the root
C17_Witness ==
    /\ last.op = "insertFails"
    /\ ~HasKey(tree, last.key)
    /\ NodeCount(tree) >= 3
    /\ insertDescend(tree, KeyValuePair(last.key, ""), tree.root, NULL).parent # tree.root

(***************************************************************************)
(* Two threads (SpecConc)                                                   *)
(***************************************************************************)
\* no thread is inside a lookup
AllOut(c) == \A i \in Threads : ~Inside(c, i)

\* the trees the lookups that have returned were to leave
Goals(c) == {c.th[i].goal : i \in {j \in Threads : c.th[j].pc = "done"}}

\* no thread is part of the way through the statements of a rotation
NoRotation(c) ==
    \A i \in Threads : c.th[i].pc \in {"idle", "done", "descend", "splay", "rotate"}

\* the loop of splay is followed to its end: no thread is at an iteration
\* beyond MaxLoops
LoopsFollowed(t, c) ==
    \A i \in Threads :
        (c.th[i].pc = "splay" /\ c.th[i].n = MaxLoops) => t.parent[c.th[i].x] = NULL

\* C18: with one exclusive lock around every call, whenever no rotation is
\* part of the way through, the tree is a binary search tree whose links
\* are consistent; every lookup comes to its end, and when no call is under
\* way the tree is the one the lookup that returned last leaves when run
\* alone.  (Without the lock, two lookups whose statements interleave leave
\* a tree whose links are not consistent: C18_Witness.)
C18_SerializedSafe ==
    conc.mode = "locked" =>
        /\ NoRotation(conc) => (IsBST(tree) /\ NoDupKeys(tree) /\ LinkOK(tree))
        /\ LoopsFollowed(tree, conc)
        /\ (AllOut(conc) /\ Goals(conc) # {}) => tree \in Goals(conc)

\* without the lock: one lookup has returned, the other is at the loop
\* condition of splay with its rotation made, and the tree is not a binary
\* search tree with consistent links
C18_Witness ==
    /\ conc.mode = "free"
    /\ \E i \in Threads : conc.th[i].pc = "done"
    /\ \A i \in Threads : conc.th[i].pc \in {"done", "splay"}
    /\ \A i \in Threads : conc.th[i].rs = <<>>
    /\ ~(IsBST(tree) /\ LinkOK(tree))

====
